---------------------------- MODULE Spec2Model ----------------------------
(***************************************************************************)
(* A model of helio.c, a terminal text editor: the key decoder             *)
(* (ReadKeypress), the dispatcher (ProcessKeypress), the cursor/scroll     *)
(* state machine (MoveCursor, Scroll), the row store (AppendRow,           *)
(* RenderRow, InsertChar), file load and save (OpenFile, SaveFile) and     *)
(* the process life cycle of main (raw mode, ErrorHandler, exit codes).    *)
(*                                                                         *)
(* Bytes are integers 0..255, texts are sequences of bytes, C indices are  *)
(* 0-based and are shifted by one where a TLA+ sequence is indexed.        *)
(*                                                                         *)
(* Spec, SpecNav and SpecNoEdit are the editor with the clock stopped and   *)
(* with memory for every frame; SpecClock lets time pass; SpecFrame lets   *)
(* realloc fail while a frame is built; SpecRows runs the row store's      *)
(* functions on rows of its own.                                           *)
(*                                                                         *)
(* Environment: the window keeps its size during a run, so                 *)
(* FetchWindowSize reports the same winsize on every pass of the main      *)
(* loop, and it has at least 3 lines (2 are taken by the status bars).     *)
(* A read outside an array or of an uninitialised variable yields any      *)
(* member of GarbageInt / GarbageKey, or a fatal signal (pc = "killed").   *)
(* Of a frame only what decides the properties is kept: whether it is      *)
(* whole, and whether the banner and the status message are on screen.     *)
(* An allocation failure in AppendString is modelled by its extreme case,  *)
(* every call of one refresh failing.                                      *)
(***************************************************************************)
EXTENDS Integers, Sequences, FiniteSets, TLC

VARIABLES
    attr,      \* the TerminalAttr struct of main
    pc,        \* "start" (main not yet run), "loop" (blocked in ReadKeypress), "exited", "killed"
    exitCode,  \* {} while the process runs, {status} once pc = "exited"
    term,      \* the terminal's mode: "original" or "raw"
    fs,        \* the file system: file name -> content (a byte sequence) or NoFile
    argv1,     \* the filename argument, or NoArg
    winsize,   \* what ioctl(TIOCGWINSZ) reports: [ws_row, ws_col]
    typed,     \* the number of characters typed so far (bounds the typing)
    loaded,    \* the content of the file OpenFile read, <<>> if none was read
    last,      \* history of the last key event handled (see History); seq is <<>> before the first
    screen,    \* what the terminal shows, and the write calls made to it (see RefreshScreen)
    now,       \* what time(NULL) returns, in seconds since the process started
    unit       \* a row store of its own, on which AppendRow and InsertChar are run directly

vars == <<attr, pc, exitCode, term, fs, argv1, winsize, typed, loaded, last, screen, now, unit>>

-----------------------------------------------------------------------------
(* Program constants *)

TAB_STOP == 8
ESC == 27
TAB == 9
LF == 10
CR == 13
BACKSPACE == 127
UP_ARROW == 500
DOWN_ARROW == 501
RIGHT_ARROW == 502
LEFT_ARROW == 503
PAGE_UP == 504
PAGE_DOWN == 505
HOME_KEY == 506
END_KEY == 507
DEL_KEY == 508

\* CTRL_KEY(c) is ((c) & 0x1f): the low five bits
CTRL_KEY(c) == c % 32

\* character literals used by the code
ChLBracket == 91
ChO == 79
ChTilde == 126
Ch0 == 48
Ch9 == 57
ChA == 65
ChB == 66
ChC == 67
ChD == 68
ChF == 70
ChH == 72
Chq == 113
Chs == 115
Chl == 108
Chh == 104

\* a pointer to bytes: NULL, or a block holding bytes
NULL == [null |-> TRUE, bytes |-> <<>>]
\* a char *fileName that is NULL
NoName == "NULL"
\* a path of the file system: no such file, or a file with its content
NoFile == [exists |-> FALSE, content |-> <<>>]
File(content) == [exists |-> TRUE, content |-> content]
NoArg == "NoArg"
DefaultFileName == "[fileName]"
ArgFileName == "f.txt"

-----------------------------------------------------------------------------
(* Bounds of the model *)

MaxFileLen == 2     \* longest file on disk at startup, in bytes
MaxTyped == 1       \* at most this many characters are typed in a run
MaxRows == 2        \* the window has 1..MaxRows text rows
MaxCols == 2        \* the window has 1..MaxCols columns
MaxNow == 5         \* the clock stops after this many seconds
MaxUnitLen == 2     \* SpecRows: rows of up to this length are appended
MaxUnitRows == 2    \* SpecRows: the row store under test has up to this many rows

\* bytes a file on disk is made of
FileBytes == {97, LF}
\* two more files: one with a tab, one with a CRLF line ending
MoreFiles == {<<TAB, 97>>, <<97, CR, LF>>}
\* bytes the user types as text
TypedBytes == {120}

\* what a read of an uninitialised or out-of-bounds int can yield
GarbageInt == {0, MaxCols + 1}
\* what the uninitialised retSeq of ReadKeypress can hold
GarbageKey == {ESC, 120, CTRL_KEY(Chq)}

RECURSIVE SeqsUpTo(_, _)
SeqsUpTo(S, n) ==
    IF n = 0 THEN {<<>>}
    ELSE LET shorter == SeqsUpTo(S, n - 1)
         IN  shorter \cup {Append(s, b) : s \in {t \in shorter : Len(t) = n - 1}, b \in S}

Files == SeqsUpTo(FileBytes, MaxFileLen) \cup MoreFiles

Max(x, y) == IF x > y THEN x ELSE y
Min(x, y) == IF x < y THEN x ELSE y

-----------------------------------------------------------------------------
(* Row store *)

(* RenderRow's inner while loop left out: a tab becomes the one space written
   before it (used to test that C13 depends on the loop). *)
PadToTabStop_None(out) == out

\* RenderRow's inner while loop: spaces until j is a multiple of TAB_STOP
RECURSIVE PadToTabStop(_)
PadToTabStop(out) ==
    IF Len(out) % TAB_STOP # 0 THEN PadToTabStop(Append(out, 32)) ELSE out

(* RenderRow's second for loop without the space written before the inner
   loop: a tab on a tab stop becomes nothing (used to test that C14 depends on
   it). *)
RECURSIVE RenderLoop_NoFirstSpace(_, _, _)
RenderLoop_NoFirstSpace(text, i, out) ==
    IF i > Len(text) THEN out
    ELSE IF text[i] # TAB
         THEN RenderLoop_NoFirstSpace(text, i + 1, Append(out, text[i]))
         ELSE RenderLoop_NoFirstSpace(text, i + 1, PadToTabStop(out))

\* RenderRow's second for loop: i indexes text, out is rendStr[0..j)
RECURSIVE RenderLoop(_, _, _)
RenderLoop(text, i, out) ==
    IF i > Len(text) THEN out
    ELSE IF text[i] # TAB
         THEN RenderLoop(text, i + 1, Append(out, text[i]))
         ELSE RenderLoop(text, i + 1, PadToTabStop(Append(out, 32)))

\* RenderRow: the tab expansion of a row's text
RenderRow(text) == RenderLoop(text, 1, <<>>)

\* a TerminalRow: size is Len(text), rendSize is Len(rendStr)
TerminalRow(text) == [text |-> text, rendStr |-> RenderRow(text)]

AppendRow(a, str) ==
    [a EXCEPT !.tRowsTot = @ + 1,
              !.tRow = Append(@, TerminalRow(str))]

(* InsertChar without its closing call of RenderRow: rendStr keeps the old
   expansion (used to test that C15 depends on the call). *)
InsertChar_NoRender(row, x0, charIn) ==
    LET size == Len(row.text)
        x == IF x0 < 0 \/ x0 > size THEN size ELSE x0
    IN  [text |-> SubSeq(row.text, 1, x) \o <<charIn>> \o SubSeq(row.text, x + 1, size),
         rendStr |-> row.rendStr]

(* InsertChar clamping an index out of range to 0 instead of size (used to
   test that C16 depends on the clamp). *)
InsertChar_ClampToFront(row, x0, charIn) ==
    LET size == Len(row.text)
        x == IF x0 < 0 \/ x0 > size THEN 0 ELSE x0
    IN  TerminalRow(SubSeq(row.text, 1, x) \o <<charIn>> \o SubSeq(row.text, x + 1, size))

\* InsertChar on one row
InsertChar(row, x0, charIn) ==
    LET size == Len(row.text)
        x == IF x0 < 0 \/ x0 > size THEN size ELSE x0
        text == SubSeq(row.text, 1, x) \o <<charIn>> \o SubSeq(row.text, x + 1, size)
    IN  TerminalRow(text)

-----------------------------------------------------------------------------
(* Key decoding *)

\* a byte read into a (signed) char and widened to int
SignedChar(b) == IF b >= 128 THEN b - 256 ELSE b

(* The switch on the digit without its cases '7' and '8' (used to test that
   C21 depends on them). *)
TildeKey_NoAlternates(d) ==
    CASE d = 49 -> HOME_KEY
      [] d = 51 -> DEL_KEY
      [] d = 52 -> END_KEY
      [] d = 53 -> PAGE_UP
      [] d = 54 -> PAGE_DOWN
      [] OTHER -> ESC

\* the switch on the digit of ESC [ <digit> ~
TildeKey(d) ==
    CASE d = 49 -> HOME_KEY
      [] d = 51 -> DEL_KEY
      [] d = 52 -> END_KEY
      [] d = 53 -> PAGE_UP
      [] d = 54 -> PAGE_DOWN
      [] d = 55 -> HOME_KEY
      [] d = 56 -> END_KEY
      [] OTHER -> ESC

\* the switch on the letter of ESC [ <letter>
BracketKey(l) ==
    CASE l = ChA -> UP_ARROW
      [] l = ChB -> DOWN_ARROW
      [] l = ChC -> RIGHT_ARROW
      [] l = ChD -> LEFT_ARROW
      [] l = ChF -> END_KEY
      [] l = ChH -> HOME_KEY
      [] OTHER -> ESC

\* the switch on the letter of ESC O <letter>
OKey(l) ==
    CASE l = ChF -> END_KEY
      [] l = ChH -> HOME_KEY
      [] OTHER -> ESC

(* ReadKeypress on the bytes `in` that the terminal delivers (non-empty: the
   first loop has read in[1]).  Returns the keys it can return and the number
   of bytes it consumed.  read(fd, buf, n) takes Min(n, available) bytes. *)
ReadKeypress(in) ==
    LET c == in[1]
        avail == Len(in) - 1
    IN  IF c # ESC
        THEN [keys |-> {SignedChar(c)}, used |-> 1]
        ELSE IF Min(2, avail) # 2
             THEN [keys |-> {ESC}, used |-> 1 + Min(2, avail)]
             ELSE IF in[2] = ChLBracket
                  THEN IF in[3] >= Ch0 /\ in[3] <= Ch9
                       THEN IF Min(1, avail - 2) # 1
                            THEN [keys |-> {ESC}, used |-> 3]
                            ELSE IF in[4] = ChTilde
                                 THEN [keys |-> {TildeKey(in[3])}, used |-> 4]
                                 \* no else branch: retSeq is returned uninitialised
                                 ELSE [keys |-> GarbageKey, used |-> 4]
                       ELSE [keys |-> {BracketKey(in[3])}, used |-> 3]
                  ELSE IF in[2] = ChO
                       THEN [keys |-> {OKey(in[3])}, used |-> 3]
                       ELSE [keys |-> {ESC}, used |-> 3]

-----------------------------------------------------------------------------
(* Loading a file *)

\* getline: the first line of a non-empty content, its newline included
RECURSIVE GetLine(_)
GetLine(content) ==
    IF content = <<>> THEN <<>>
    ELSE IF Head(content) = LF THEN <<LF>>
    ELSE <<Head(content)>> \o GetLine(Tail(content))

\* the inner while loop of OpenFile: drop trailing \n and \r
RECURSIVE StripEol(_)
StripEol(line) ==
    IF Len(line) > 0 /\ (line[Len(line)] = LF \/ line[Len(line)] = CR)
    THEN StripEol(SubSeq(line, 1, Len(line) - 1))
    ELSE line

\* the getline loop of OpenFile
RECURSIVE ReadLines(_, _)
ReadLines(a, content) ==
    IF content = <<>> THEN a
    ELSE LET line == GetLine(content)
         IN  ReadLines(AppendRow(a, StripEol(line)),
                       SubSeq(content, Len(line) + 1, Len(content)))

\* OpenFile once fopen has succeeded
OpenFile(a, fileName, content) ==
    LET a1 == ReadLines([a EXCEPT !.fileName = fileName], content)
    IN  [a1 EXCEPT !.maxrowOffset = a1.tRowsTot - a1.numRows]

-----------------------------------------------------------------------------
(* Moving the cursor and scrolling *)

(* attr->tRow[i].rendSize.  Inside the array it is the row's rendered length;
   outside it the read is out of bounds and yields any int. *)
RendSizeAt(a, i) ==
    IF i >= 0 /\ i < a.tRowsTot THEN {Len(a.tRow[i + 1].rendStr)} ELSE GarbageInt

\* the txtLen that MoveCursor computes before and after its switch
TxtLen(a) ==
    IF a.cursorY < a.tRowsTot THEN RendSizeAt(a, a.cursorY + a.rowOffset) ELSE {0}

(* Scroll with the bound of its DOWN_ARROW case left out (used to test that
   C11 depends on that bound). *)
Scroll_Unbounded(a, key) ==
    CASE key = UP_ARROW ->
            IF a.rowOffset > 0 THEN [a EXCEPT !.rowOffset = @ - 1] ELSE a
      [] key = DOWN_ARROW -> [a EXCEPT !.rowOffset = @ + 1]
      [] key = RIGHT_ARROW -> [a EXCEPT !.colOffset = @ + 1]
      [] key = LEFT_ARROW -> [a EXCEPT !.colOffset = @ - 1]
      [] OTHER -> a

Scroll(a, key) ==
    CASE key = UP_ARROW ->
            IF a.rowOffset > 0 THEN [a EXCEPT !.rowOffset = @ - 1] ELSE a
      [] key = DOWN_ARROW ->
            IF a.rowOffset < a.maxrowOffset THEN [a EXCEPT !.rowOffset = @ + 1] ELSE a
      [] key = RIGHT_ARROW -> [a EXCEPT !.colOffset = @ + 1]
      [] key = LEFT_ARROW -> [a EXCEPT !.colOffset = @ - 1]
      [] OTHER -> a

\* the end of MoveCursor: maxcolOffset recomputed, cursorX and colOffset clamped
ClampCols(a, txtLen) ==
    LET m == txtLen - a.numCols + 1
        a1 == IF m < 0
              THEN [a EXCEPT !.maxcolOffset = 0,
                             !.cursorX = IF @ > txtLen THEN txtLen ELSE @]
              ELSE [a EXCEPT !.maxcolOffset = m]
    IN  IF a1.colOffset > a1.maxcolOffset
        THEN [a1 EXCEPT !.colOffset = a1.maxcolOffset]
        ELSE a1

(* MoveCursor(attr, key): the set of structs it can leave (one, unless a read
   was out of bounds). *)
RECURSIVE MoveCursor(_, _)

\* the switch of MoveCursor, txtLen being the length read before it
MoveSwitch(a, key, txtLen) ==
    CASE key = UP_ARROW ->
            {IF a.cursorY = 0 THEN Scroll(a, UP_ARROW) ELSE [a EXCEPT !.cursorY = @ - 1]}
      [] key = DOWN_ARROW ->
            {IF a.cursorY = a.numRows - 1
             THEN Scroll(a, DOWN_ARROW)
             ELSE [a EXCEPT !.cursorY = @ + 1]}
      [] key = RIGHT_ARROW ->
            IF a.cursorX < a.numCols - 1 /\ a.cursorX < txtLen
            THEN {[a EXCEPT !.cursorX = @ + 1]}
            ELSE IF a.colOffset < a.maxcolOffset
                 THEN {Scroll(a, RIGHT_ARROW)}
                 ELSE {[b EXCEPT !.cursorX = 0, !.colOffset = 0] :
                          b \in MoveCursor(a, DOWN_ARROW)}
      [] key = LEFT_ARROW ->
            IF a.cursorX = 0 /\ a.colOffset > 0
            THEN {Scroll(a, LEFT_ARROW)}
            ELSE IF a.cursorX = 0
                 THEN {[b EXCEPT !.cursorX = b.numCols - 1, !.colOffset = b.maxcolOffset] :
                          b \in MoveCursor(a, UP_ARROW)}
                 ELSE {[a EXCEPT !.cursorX = @ - 1]}
      [] OTHER -> {a}

MoveCursor(a, key) ==
    UNION {UNION {{ClampCols(b, t2) : t2 \in TxtLen(b)} : b \in MoveSwitch(a, key, t1)} :
              t1 \in TxtLen(a)}

\* the for loop of PAGE_UP / PAGE_DOWN: n more calls of MoveCursor
RECURSIVE MovePage(_, _, _)
MovePage(a, key, n) ==
    IF n <= 0 THEN {a}
    ELSE UNION {MovePage(b, key, n - 1) :
                   b \in MoveCursor(a, IF key = PAGE_UP THEN UP_ARROW ELSE DOWN_ARROW)}

-----------------------------------------------------------------------------
(* Typing a character *)

\* the row index InsertCharWrapper passes to InsertChar is inside the array
InsertInBounds(a) ==
    LET a1 == IF a.cursorY + a.rowOffset = a.tRowsTot THEN AppendRow(a, <<>>) ELSE a
    IN  a1.cursorY + a1.rowOffset < a1.tRowsTot

\* InsertCharWrapper when the row index is inside the array (charIn is a byte)
InsertCharWrapper(a, charIn) ==
    LET a1 == IF a.cursorY + a.rowOffset = a.tRowsTot THEN AppendRow(a, <<>>) ELSE a
        index == a1.cursorX + a1.colOffset
        r == a1.cursorY + a1.rowOffset + 1
        a2 == [a1 EXCEPT !.tRow[r] = InsertChar(@, index, charIn)]
    IN  MoveCursor(a2, RIGHT_ARROW)

-----------------------------------------------------------------------------
(* Saving *)

\* the first loop of WriteRowsToBuff: the sum of size + 1 over the rows
RECURSIVE LengthTot(_)
LengthTot(rows) ==
    IF rows = <<>> THEN 0 ELSE Len(Head(rows).text) + 1 + LengthTot(Tail(rows))

\* the second loop of WriteRowsToBuff: what it writes into its malloc'd block
RECURSIVE RowsToBuff(_)
RowsToBuff(rows) ==
    IF rows = <<>> THEN <<>>
    ELSE Head(rows).text \o <<LF>> \o RowsToBuff(Tail(rows))

(* WriteRowsToBuff(attr, buff): buff is a parameter passed by value, so the
   block it mallocs and fills is not seen by the caller, whose pointer keeps
   the value passed in; only the length comes back. *)
WriteRowsToBuff(a, buff) ==
    [length |-> LengthTot(a.tRow), callerBuff |-> buff, localBuff |-> RowsToBuff(a.tRow)]

\* ftruncate(fd, length) on a file's content: cut, or extended with NUL bytes
Ftruncate(content, length) ==
    [i \in 1..length |-> IF i <= Len(content) THEN content[i] ELSE 0]

\* write(fd, buff, length) with a NULL buff and length > 0 fails with EFAULT
WriteFails(buff, length) == buff.null /\ length > 0

(* write(fd, buff, length) at offset 0: nothing is written when it fails or
   when length is 0. *)
Write(content, buff, length) ==
    IF WriteFails(buff, length) \/ length = 0 THEN content
    ELSE [i \in 1..Max(Len(content), length) |->
             IF i <= length THEN buff.bytes[i] ELSE content[i]]

\* SaveFile past its fileName test, open having succeeded on `old` (NoFile: created)
SaveFile(a, old) ==
    LET w == WriteRowsToBuff(a, NULL)
        opened == IF old.exists THEN old.content ELSE <<>>
    IN  File(Write(Ftruncate(opened, w.length), w.callerBuff, w.length))

-----------------------------------------------------------------------------
(* The process: main, ProcessKeypress, ErrorHandler *)

\* the byte sequences one key press delivers
KeySeqs ==
    {<<b>> : b \in TypedBytes \cup {CTRL_KEY(Chq), CTRL_KEY(Chs), CTRL_KEY(Chl),
                                   CTRL_KEY(Chh), CR, BACKSPACE, ESC}}
    \cup {<<ESC, ChLBracket, l>> : l \in {ChA, ChB, ChC, ChD, ChF, ChH}}
    \cup {<<ESC, ChLBracket, d, ChTilde>> : d \in {51, 53, 54}}
    \cup {<<ESC, ChLBracket, 49, 120>>}

\* the struct before InitTerminalAttr has run, and after the process has ended
Uninitialised ==
    [cursorX |-> 0, cursorY |-> 0, rowOffset |-> 0, colOffset |-> 0,
     maxrowOffset |-> 0, maxcolOffset |-> 0, tRowsTot |-> 0, tRow |-> <<>>,
     numRows |-> 0, numCols |-> 0, fileName |-> NoName,
     statusMsg |-> "", statusMsgTime |-> 0]

\* FetchWindowSize when ioctl succeeds and ws_col is not 0
FetchWindowSize(a) ==
    [a EXCEPT !.numRows = winsize.ws_row - 2, !.numCols = winsize.ws_col]

\* InitTerminalAttr when tcgetattr and FetchWindowSize succeed
InitTerminalAttr ==
    FetchWindowSize(
        [cursorX |-> 0, cursorY |-> 0, rowOffset |-> 0, colOffset |-> 0,
         maxrowOffset |-> 0, maxcolOffset |-> 0, tRowsTot |-> 0, tRow |-> <<>>,
         numRows |-> 0, numCols |-> 0, fileName |-> DefaultFileName,
         statusMsg |-> "", statusMsgTime |-> 0])

\* the message main sets before its loop
HelpMsg == "HELP: Press CTRL-Q to quit | Press CTRL-S to save"

\* SetStatusMessage(attr, msg) called at time t
SetStatusMessage(a, msg, t) == [a EXCEPT !.statusMsg = msg, !.statusMsgTime = t]

\* a status message is shown for this many seconds
StatusMsgLife == 5

\* the terminal before the editor has written to it, and after a clear-screen
BlankScreen(writes) ==
    [writes |-> writes, frame |-> "none", banner |-> FALSE, msg |-> FALSE]

(* RefreshScreen(attr) at time t on a terminal showing scr: the screens its
   single write can leave.
   - Every AppendString succeeds: the frame is whole.  WriteRows draws the
     banner on line numRows / 4 iff the buffer has no rows, and redraws and
     clears every text line; WriteStatusMessage sends ESC [ k, which clears
     nothing, and then the message if there is one and it is under
     StatusMsgLife old, so an older message stays as it was on screen.
   - realloc fails in AppendString, which returns without a word: in the
     extreme case the buffer stays empty, write(fd, NULL, 0) sends nothing and
     the terminal keeps what it showed. *)
RefreshScreen(a, scr, t) ==
    {[writes |-> 1, frame |-> "whole",
      banner |-> (a.numRows > 0 /\ a.tRowsTot = 0),
      msg |-> IF a.statusMsg # "" /\ t - a.statusMsgTime < StatusMsgLife
              THEN TRUE ELSE scr.msg],
     [writes |-> 1, frame |-> "empty", banner |-> scr.banner, msg |-> scr.msg]}

\* the keys with a case of their own in ProcessKeypress
ArrowKeys == {UP_ARROW, DOWN_ARROW, RIGHT_ARROW, LEFT_ARROW}
PageKeys == {PAGE_UP, PAGE_DOWN}
(* The keys that do nothing without '\r': Enter falls to the default case and
   is inserted (used to test that C25 depends on the case of '\r'). *)
IgnoredKeys_NoEnter == {ESC, CTRL_KEY(Chl), BACKSPACE, DEL_KEY, CTRL_KEY(Chh)}
IgnoredKeys == {ESC, CTRL_KEY(Chl), CR, BACKSPACE, DEL_KEY, CTRL_KEY(Chh)}
CommandKeys ==
    {CTRL_KEY(Chq), CTRL_KEY(Chs), HOME_KEY, END_KEY}
        \cup ArrowKeys \cup PageKeys \cup IgnoredKeys

(* An outcome of handling one key: the struct, the file system, how it ended
   ("continue", "quit", "fatal": ErrorHandler was called, "killed": a signal),
   and which call failed ("open" or "write" in a save, "alloc" for malloc or
   realloc, or "none"). *)
Outcome(a, f, out, failed) ==
    [attr |-> a, fs |-> f, out |-> out, failed |-> failed]

\* case CTRL_KEY('s'): SaveFile
SaveOutcomes(a, f) ==
    IF a.fileName = NoName THEN {Outcome(a, f, "continue", "none")}
    ELSE {Outcome(a, f, "fatal", "alloc")}  \* malloc fails in WriteRowsToBuff
         \cup {Outcome(a, f, "continue", "open")}  \* open fails: every call on fd -1 fails
         \cup {Outcome(a, [f EXCEPT ![a.fileName] = SaveFile(a, @)], "continue",
                       IF WriteFails(WriteRowsToBuff(a, NULL).callerBuff,
                                     WriteRowsToBuff(a, NULL).length)
                       THEN "write" ELSE "none")}

\* case END_KEY
EndOutcomes(a, f) ==
    IF a.cursorY + a.rowOffset < a.tRowsTot
    THEN {Outcome([a EXCEPT !.cursorX = t], f, "continue", "none") :
             t \in RendSizeAt(a, a.cursorY + a.rowOffset)}
    ELSE \* a read outside the array (of a NULL array when there are no rows)
         {Outcome(a, f, "killed", "none")}
         \cup {Outcome([a EXCEPT !.cursorX = t], f, "continue", "none") :
                  t \in RendSizeAt(a, a.cursorY + a.rowOffset)}

\* default: InsertCharWrapper(attr, key), key converted to char
InsertOutcomes(a, f, key) ==
    IF InsertInBounds(a)
    THEN {Outcome(b, f, "continue", "none") : b \in InsertCharWrapper(a, key % 256)}
         \cup {Outcome(a, f, "fatal", "alloc")}  \* realloc fails in InsertChar
         \* realloc or malloc fails in AppendRow or RenderRow, which write
         \* through the NULL they got
         \cup {Outcome(a, f, "killed", "alloc")}
    ELSE \* InsertChar on a row outside the array
         {Outcome(a, f, "killed", "none")}
         \cup {Outcome(b, f, "continue", "none") : b \in MoveCursor(a, RIGHT_ARROW)}

(* The switch of ProcessKeypress with a save added to its CTRL_KEY('q') case
   (used to test that C22 depends on that case doing nothing). *)
ProcessKeypress_QuitSaves(a, f, key) ==
    CASE key = CTRL_KEY(Chq) ->
            {Outcome(o.attr, o.fs, "quit", "none") : o \in SaveOutcomes(a, f)}
      [] key = CTRL_KEY(Chs) -> SaveOutcomes(a, f)
      [] key \in ArrowKeys -> {Outcome(b, f, "continue", "none") : b \in MoveCursor(a, key)}
      [] key \in PageKeys ->
            {Outcome(b, f, "continue", "none") : b \in MovePage(a, key, a.numRows - 1)}
      [] key = HOME_KEY -> {Outcome([a EXCEPT !.cursorX = 0], f, "continue", "none")}
      [] key = END_KEY -> EndOutcomes(a, f)
      [] key \in IgnoredKeys -> {Outcome(a, f, "continue", "none")}
      [] OTHER -> InsertOutcomes(a, f, key)

\* the switch of ProcessKeypress
ProcessKeypress(a, f, key) ==
    CASE key = CTRL_KEY(Chq) -> {Outcome(a, f, "quit", "none")}
      [] key = CTRL_KEY(Chs) -> SaveOutcomes(a, f)
      [] key \in ArrowKeys -> {Outcome(b, f, "continue", "none") : b \in MoveCursor(a, key)}
      [] key \in PageKeys ->
            {Outcome(b, f, "continue", "none") : b \in MovePage(a, key, a.numRows - 1)}
      [] key = HOME_KEY -> {Outcome([a EXCEPT !.cursorX = 0], f, "continue", "none")}
      [] key = END_KEY -> EndOutcomes(a, f)
      [] key \in IgnoredKeys -> {Outcome(a, f, "continue", "none")}
      [] OTHER -> InsertOutcomes(a, f, key)

(* The history of the key event being handled: the bytes read and the key
   decoded, where the cursor was (x, y: absolute column and row) and how many
   rows the buffer had, which call failed, and the rows ProcessKeypress left. *)
History(seq, key, o) ==
    [seq |-> seq, key |-> key,
     x |-> attr.colOffset + attr.cursorX,
     y |-> attr.rowOffset + attr.cursorY,
     rows |-> attr.tRowsTot,
     failed |-> o.failed,
     tRow |-> o.attr.tRow]

\* ErrorHandler: clears the screen, perror, exit(1); the process image is gone
ErrorHandler ==
    /\ pc' = "exited"
    /\ exitCode' = {1}
    /\ attr' = Uninitialised
    /\ screen' = BlankScreen(2)
    /\ UNCHANGED term

(* What follows ProcessKeypress in main, for the outcome o of the key; frame
   says whether the refresh gets its memory ("whole") or not ("empty"). *)
Finish(seq, key, o, frame) ==
    /\ fs' = o.fs
    /\ last' = History(seq, key, o)
    /\ typed' = IF key \in CommandKeys THEN typed ELSE typed + 1
    /\ UNCHANGED <<argv1, winsize, loaded, now, unit>>
    /\ \/ /\ o.out = "continue"   \* FetchWindowSize, RefreshScreen, next ReadKeypress
          /\ attr' = FetchWindowSize(o.attr)
          /\ screen' \in {f \in RefreshScreen(attr', screen, now) : f.frame = frame}
          /\ UNCHANGED <<pc, exitCode, term>>
       \/ /\ o.out = "continue"   \* FetchWindowSize fails
          /\ ErrorHandler
       \/ /\ o.out = "quit"       \* RawModeOff, return 0
          /\ attr' = Uninitialised
          /\ term' = "original"
          /\ pc' = "exited"
          /\ exitCode' = {0}
          /\ screen' = [screen EXCEPT !.writes = 0]
       \/ /\ o.out = "quit"       \* tcsetattr fails in RawModeOff
          /\ ErrorHandler
       \/ /\ o.out = "fatal"
          /\ ErrorHandler
       \/ /\ o.out = "killed"     \* the process dies of a signal
          /\ attr' = Uninitialised
          /\ pc' = "killed"
          /\ screen' = [screen EXCEPT !.writes = 0]
          /\ UNCHANGED <<exitCode, term>>

(* One pass of main's loop: the terminal delivers the bytes of one key press,
   ReadKeypress decodes them to a key in keys, ProcessKeypress handles it, and
   the window size is fetched and the screen refreshed. *)
KeyEvent(keys) ==
    \E seq \in KeySeqs :
       \E key \in ReadKeypress(seq).keys \cap keys :
          /\ ReadKeypress(seq).used = Len(seq)
          /\ (key \notin CommandKeys) => typed < MaxTyped
          /\ \E o \in ProcessKeypress(attr, fs, key) : Finish(seq, key, o, "whole")

(* One pass of main's loop in which realloc fails in AppendString while
   RefreshScreen builds the frame. *)
StarvedKeyEvent(keys) ==
    \E seq \in KeySeqs :
       \E key \in ReadKeypress(seq).keys \cap keys :
          /\ ReadKeypress(seq).used = Len(seq)
          /\ (key \notin CommandKeys) => typed < MaxTyped
          /\ \E o \in ProcessKeypress(attr, fs, key) :
                o.out = "continue" /\ Finish(seq, key, o, "empty")

AllKeys == UNION {ReadKeypress(seq).keys : seq \in KeySeqs}

\* single bytes that are neither printable nor a case of ProcessKeypress: Ctrl-A, 0x80, 0xC8
ControlSeqs == {<<1>>, <<128>>, <<200>>}

(* One pass of main's loop for a byte of ControlSeqs: ReadKeypress returns it
   as a char, ProcessKeypress handles it, the screen is refreshed. *)
ControlKeyEvent ==
    \E seq \in ControlSeqs :
       \E key \in ReadKeypress(seq).keys :
          /\ ReadKeypress(seq).used = Len(seq)
          /\ typed < MaxTyped
          /\ \E o \in ProcessKeypress(attr, fs, key) : Finish(seq, key, o, "whole")

Quit ==
    /\ pc = "loop"
    /\ KeyEvent({CTRL_KEY(Chq)})

Save ==
    /\ pc = "loop"
    /\ KeyEvent({CTRL_KEY(Chs)})

Arrow ==
    /\ pc = "loop"
    /\ KeyEvent(ArrowKeys)

Page ==
    /\ pc = "loop"
    /\ KeyEvent(PageKeys)

Home ==
    /\ pc = "loop"
    /\ KeyEvent({HOME_KEY})

End ==
    /\ pc = "loop"
    /\ KeyEvent({END_KEY})

Ignored ==
    /\ pc = "loop"
    /\ KeyEvent(IgnoredKeys)

Insert ==
    /\ pc = "loop"
    /\ KeyEvent(AllKeys \ CommandKeys)

\* a control byte or a byte from 0x80 on is typed
InsertControl ==
    /\ pc = "loop"
    /\ ControlKeyEvent

\* a key is handled and the frame that follows gets no memory
Starved ==
    /\ pc = "loop"
    /\ StarvedKeyEvent(AllKeys \ {CTRL_KEY(Chq)})

\* read() fails in ReadKeypress with an errno other than EAGAIN
ReadFail ==
    /\ pc = "loop"
    /\ ErrorHandler
    /\ UNCHANGED <<fs, argv1, winsize, typed, loaded, last, now, unit>>

\* main up to its loop, everything succeeding
StartOk ==
    /\ pc = "start"
    /\ winsize.ws_col # 0
    /\ argv1 # NoArg => fs[argv1].exists
    /\ attr' = SetStatusMessage(
                   IF argv1 # NoArg
                   THEN OpenFile(InitTerminalAttr, argv1, fs[argv1].content)
                   ELSE InitTerminalAttr,
                   HelpMsg, now)
    /\ term' = "raw"   \* RawModeOn
    /\ pc' = "loop"
    /\ loaded' = IF argv1 # NoArg THEN fs[argv1].content ELSE <<>>
    /\ UNCHANGED <<exitCode, fs, argv1, winsize, typed, last, screen, now, unit>>

\* tcgetattr fails, or FetchWindowSize fails, in InitTerminalAttr: before RawModeOn
StartInitFail ==
    /\ pc = "start"
    /\ ErrorHandler
    /\ UNCHANGED <<fs, argv1, winsize, typed, loaded, last, now, unit>>

\* fopen fails in OpenFile: after RawModeOn
StartFopenFail ==
    /\ pc = "start"
    /\ winsize.ws_col # 0
    /\ argv1 # NoArg
    /\ ~fs[argv1].exists
    /\ attr' = Uninitialised
    /\ term' = "raw"
    /\ pc' = "exited"
    /\ exitCode' = {1}
    /\ screen' = BlankScreen(2)
    /\ UNCHANGED <<fs, argv1, winsize, typed, loaded, last, now, unit>>

(* realloc or malloc fails in AppendRow or RenderRow while OpenFile loads a
   line: the NULL pointer is written through. *)
StartAllocFail ==
    /\ pc = "start"
    /\ winsize.ws_col # 0
    /\ argv1 # NoArg
    /\ fs[argv1].exists
    /\ fs[argv1].content # <<>>
    /\ attr' = Uninitialised
    /\ term' = "raw"
    /\ pc' = "killed"
    /\ last' = [last EXCEPT !.failed = "alloc"]
    /\ UNCHANGED <<exitCode, fs, argv1, winsize, typed, loaded, screen, now, unit>>

\* a second passes
Tick ==
    /\ pc = "loop"
    /\ now < MaxNow
    /\ now' = now + 1
    /\ UNCHANGED <<attr, pc, exitCode, term, fs, argv1, winsize, typed, loaded, last,
                   screen, unit>>

-----------------------------------------------------------------------------
(* The row store on its own *)

\* the row texts AppendRow is given: short ones, "a<TAB>b", and a tab in column 7
UnitTexts ==
    SeqsUpTo({97, TAB}, MaxUnitLen)
    \cup {<<97, TAB, 98>>, <<97, 97, 97, 97, 97, 97, 97, TAB>>}

\* the characters InsertChar is given
UnitChars == {120, TAB}

(* a: the part of TerminalAttr the row store uses; op, r, x, ch: the last call
   made on it (InsertChar on row r at x with ch); prev: the rows before it. *)
NoUnit ==
    [a |-> [tRowsTot |-> 0, tRow |-> <<>>],
     op |-> "none", r |-> 0, x |-> 0, ch |-> 0, prev |-> <<>>]

\* AppendRow(&attr, str, rowSize): the rows are built first
UnitAppendRow ==
    /\ unit.op # "insert"
    /\ unit.a.tRowsTot < MaxUnitRows
    /\ \E str \in UnitTexts :
          unit' = [a |-> AppendRow(unit.a, str),
                   op |-> "append", r |-> unit.a.tRowsTot, x |-> 0, ch |-> 0,
                   prev |-> unit.a.tRow]
    /\ UNCHANGED <<attr, pc, exitCode, term, fs, argv1, winsize, typed, loaded, last,
                   screen, now>>

(* InsertChar(&attr.tRow[r], x, ch), as InsertCharWrapper calls it: the last
   call of a run, on the rows AppendRow has built *)
UnitInsertChar ==
    /\ unit.op # "insert"
    /\ \E r \in 0..(unit.a.tRowsTot - 1) :
          /\ \E x \in -1..(Len(unit.a.tRow[r + 1].text) + 1), ch \in UnitChars :
                unit' = [a |-> [unit.a EXCEPT !.tRow[r + 1] = InsertChar(@, x, ch)],
                         op |-> "insert", r |-> r, x |-> x, ch |-> ch,
                         prev |-> unit.a.tRow]
    /\ UNCHANGED <<attr, pc, exitCode, term, fs, argv1, winsize, typed, loaded, last,
                   screen, now>>

-----------------------------------------------------------------------------
(* The key decoder on its own *)

\* the byte sequences ReadKeypress is given: single bytes, and ESC with up to three more
UnitKeySeqs ==
    {<<b>> : b \in {0, TAB, CR, CTRL_KEY(Chq), 97, 120, BACKSPACE, 200, 255, ESC}}
    \cup {<<ESC, b>> : b \in {ChLBracket, ChO}}
    \cup {<<ESC, b, l>> : b \in {ChLBracket, ChO, 120},
                          l \in {ChA, ChB, ChC, ChD, 69, ChF, 71, ChH} \cup (Ch0..Ch9)}
    \cup {<<ESC, ChLBracket, d, e>> : d \in Ch0..Ch9, e \in {ChTilde, 120}}

(* ReadKeypress() on the bytes of one key press; the bytes and the key it
   returns are recorded in last. *)
UnitReadKeypress ==
    /\ pc = "start"
    /\ \E seq \in UnitKeySeqs :
          \E key \in ReadKeypress(seq).keys :
             /\ ReadKeypress(seq).used = Len(seq)
             /\ last' = [last EXCEPT !.seq = seq, !.key = key]
    /\ UNCHANGED <<attr, pc, exitCode, term, fs, argv1, winsize, typed, loaded, screen,
                   now, unit>>

Init ==
    /\ attr = Uninitialised
    /\ pc = "start"
    /\ exitCode = {}
    /\ term = "original"
    /\ argv1 \in {NoArg, ArgFileName}
    /\ \E file \in {File(c) : c \in Files} \cup {NoFile} :
          /\ argv1 = NoArg => file = NoFile
          /\ fs = [n \in {ArgFileName, DefaultFileName} |->
                      IF n = ArgFileName THEN file ELSE NoFile]
    /\ winsize \in [ws_row : 3..(MaxRows + 2), ws_col : 0..MaxCols]
    /\ typed = 0
    /\ loaded = <<>>
    /\ last = [seq |-> <<>>, key |-> 0, x |-> 0, y |-> 0, rows |-> 0, failed |-> "none",
               tRow |-> <<>>]
    /\ screen = BlankScreen(0)
    /\ now = 0
    /\ unit = NoUnit

Next ==
    \/ StartOk
    \/ StartInitFail
    \/ StartFopenFail
    \/ StartAllocFail
    \/ ReadFail
    \/ Quit
    \/ Save
    \/ Arrow
    \/ Page
    \/ Home
    \/ End
    \/ Ignored
    \/ Insert

Spec == Init /\ [][Next]_vars

\* the runs in which only navigation keys are pressed
NextNav ==
    \/ StartOk
    \/ StartInitFail
    \/ StartFopenFail
    \/ Arrow
    \/ Page
    \/ Home
    \/ End

SpecNav == Init /\ [][NextNav]_vars

\* the runs in which no character is typed: the rows stay as loaded
NextNoEdit ==
    \/ StartOk
    \/ StartInitFail
    \/ StartFopenFail
    \/ StartAllocFail
    \/ ReadFail
    \/ Quit
    \/ Save
    \/ Arrow
    \/ Page
    \/ Home
    \/ End
    \/ Ignored

SpecNoEdit == Init /\ [][NextNoEdit]_vars

\* the runs in which time passes while keys that change no text are pressed
NextClock ==
    \/ StartOk
    \/ Tick
    \/ Arrow
    \/ Ignored

SpecClock == Init /\ [][NextClock]_vars

\* the runs, started without a file, in which a frame may get no memory
NextFrame ==
    \/ StartOk
    \/ Arrow
    \/ Ignored
    \/ Insert
    \/ Starved

InitFrame == Init /\ argv1 = NoArg

SpecFrame == InitFrame /\ [][NextFrame]_vars

\* the runs in which the cursor is moved and a byte that is not printable is typed
NextBytes ==
    \/ StartOk
    \/ Arrow
    \/ InsertControl

SpecBytes == Init /\ [][NextBytes]_vars

\* the row store run on its own: rows are appended, characters inserted
NextRows ==
    \/ UnitAppendRow
    \/ UnitInsertChar

\* the editor is not started: one initial state, the row store empty
InitRows ==
    /\ Init
    /\ argv1 = NoArg
    /\ winsize = [ws_row |-> 3, ws_col |-> 1]

SpecRows == InitRows /\ [][NextRows]_vars

\* the key decoder run on its own, the editor not started
NextKeys == UnitReadKeypress

SpecKeys == InitRows /\ [][NextKeys]_vars

-----------------------------------------------------------------------------
(* Properties *)

\* a key has been handled, and the editor is waiting for the next one
Handled(keys) == pc = "loop" /\ last.seq # <<>> /\ last.key \in keys

\* the rendered length of the row under the cursor, 0 when there is none
RenderedLenUnderCursor ==
    IF attr.rowOffset + attr.cursorY < attr.tRowsTot
    THEN Len(attr.tRow[attr.rowOffset + attr.cursorY + 1].rendStr)
    ELSE 0

(* C1, as stated: after any sequence of navigation keys (the runs of SpecNav)
   the cursor is inside the screen, 0 <= cursorY < numRows and
   0 <= cursorX < numCols. *)
C1_CursorInsideScreen ==
    pc = "loop" =>
        /\ 0 <= attr.cursorY /\ attr.cursorY < attr.numRows
        /\ 0 <= attr.cursorX /\ attr.cursorX < attr.numCols

(* C2, as stated: whenever the process has exited, the terminal is back in its
   original mode (an exit before RawModeOn leaves it there). *)
C2_TerminalRestoredOnExit == pc = "exited" => term = "original"

\* the text the rows stand for: each row's raw bytes followed by one newline
RECURSIVE SavedText(_)
SavedText(rows) ==
    IF rows = <<>> THEN <<>>
    ELSE Head(rows).text \o <<LF>> \o SavedText(Tail(rows))

(* C3, as stated: after a Ctrl-S whose open succeeded, the target file holds
   exactly raw(r0) "\n" ... raw(r(n-1)) "\n". *)
C3_SaveWritesRows ==
    (Handled({CTRL_KEY(Chs)}) /\ last.failed # "open") =>
        fs[attr.fileName] = File(SavedText(attr.tRow))

\* the escape sequences of the decode table
MappedSeqs ==
    {<<ESC, ChLBracket, l>> : l \in {ChA, ChB, ChC, ChD, ChF, ChH}}
    \cup {<<ESC, ChLBracket, d, ChTilde>> : d \in {49, 51, 52, 53, 54, 55, 56}}
    \cup {<<ESC, ChO, ChF>>, <<ESC, ChO, ChH>>}

(* C4, as stated: a byte sequence that starts with ESC and is not in the
   decode table is decoded to the bare escape key. *)
C4_UnmappedEscapeIsEscape ==
    (last.seq # <<>> /\ last.seq[1] = ESC /\ last.seq \notin MappedSeqs) =>
        last.key = ESC

(* C5, as stated: after any sequence of navigation keys (the runs of SpecNav)
   the cursor is not past the end of the text of the row under it:
   colOffset + cursorX <= rendered length (0 when no row is under it). *)
C5_CursorNotPastText ==
    pc = "loop" => attr.colOffset + attr.cursorX <= RenderedLenUnderCursor

(* C6, as stated: after a character is typed with the cursor on an existing
   row, that row's rendered text has the typed byte at the rendered column
   where the cursor was. *)
C6_TypedByteAtCursorColumn ==
    (Handled(AllKeys \ CommandKeys) /\ last.y < last.rows) =>
        LET rendStr == attr.tRow[last.y + 1].rendStr
        IN  /\ last.x + 1 <= Len(rendStr)
            /\ rendStr[last.x + 1] = last.key

(* C7, as stated: after a character is inserted (into an existing row, or into
   the row appended for it), the cursor is on the same absolute row and one
   absolute column further right. *)
C7_CursorAdvancesByOne ==
    (Handled(AllKeys \ CommandKeys) /\ last.y <= last.rows) =>
        /\ attr.rowOffset + attr.cursorY = last.y
        /\ attr.colOffset + attr.cursorX = last.x + 1

\* a text with every CR LF pair replaced by LF
RECURSIVE CrlfToLf(_)
CrlfToLf(text) ==
    IF text = <<>> THEN <<>>
    ELSE IF Len(text) >= 2 /\ text[1] = CR /\ text[2] = LF
         THEN <<LF>> \o CrlfToLf(SubSeq(text, 3, Len(text)))
         ELSE <<Head(text)>> \o CrlfToLf(Tail(text))

(* C8, as stated: with no edit since the load (the runs of SpecNoEdit), after a
   Ctrl-S whose open succeeded the file holds the content that was loaded with
   every CRLF replaced by LF. *)
C8_LoadSaveRoundTrip ==
    (Handled({CTRL_KEY(Chs)}) /\ argv1 # NoArg /\ last.failed # "open") =>
        fs[argv1] = File(CrlfToLf(loaded))

(* C9, as stated: when the open or the write of a save has failed, the process
   has terminated with exit code 1. *)
C9_SaveFailureIsFatal ==
    (last.seq # <<>> /\ last.key = CTRL_KEY(Chs) /\ last.failed \in {"open", "write"}) =>
        (pc = "exited" /\ exitCode = {1})

(* C10, as stated: while the editor waits for a key,
   maxrowOffset = max(0, tRowsTot - numRows). *)
C10_MaxRowOffset ==
    pc = "loop" => attr.maxrowOffset = Max(0, attr.tRowsTot - attr.numRows)

(* C11: after any sequence of key events 0 <= rowOffset <= max(0, tRowsTot -
   numRows); so a buffer with fewer rows than the screen is never scrolled
   vertically. *)
C11_RowOffsetInRange ==
    pc = "loop" =>
        /\ 0 <= attr.rowOffset
        /\ attr.rowOffset <= Max(0, attr.tRowsTot - attr.numRows)

\* C11's case: the view has been scrolled down over a buffer longer than the screen
C11_Witness ==
    /\ Handled({DOWN_ARROW, PAGE_DOWN})
    /\ attr.rowOffset > 0
    /\ attr.tRowsTot > attr.numRows

(* C12, as stated: after every Up/Down/Left/Right/PageUp/PageDown event and after every
   character insertion, maxcolOffset = max(0, rendered length of the row under
   the cursor - numCols + 1) and 0 <= colOffset <= maxcolOffset. *)
C12_MaxColOffset ==
    Handled(ArrowKeys \cup PageKeys \cup (AllKeys \ CommandKeys)) =>
        /\ attr.maxcolOffset = Max(0, RenderedLenUnderCursor - attr.numCols + 1)
        /\ 0 <= attr.colOffset
        /\ attr.colOffset <= attr.maxcolOffset

\* the rows of the row store under test
UnitRowSet == {unit.a.tRow[i] : i \in 1..Len(unit.a.tRow)}

\* the number of tab characters of a text
RECURSIVE TabCount(_)
TabCount(text) ==
    IF text = <<>> THEN 0
    ELSE (IF Head(text) = TAB THEN 1 ELSE 0) + TabCount(Tail(text))

(* the output column (from 0) at which byte i of a text lands, i = Len + 1
   giving the column after the last byte: a tab moves on to the next multiple
   of TAB_STOP, every other byte by one *)
RECURSIVE Column(_, _)
Column(text, i) ==
    IF i = 1 THEN 0
    ELSE LET c == Column(text, i - 1)
         IN  IF text[i - 1] = TAB
             THEN CHOOSE m \in (c + 1)..(c + TAB_STOP) : m % TAB_STOP = 0
             ELSE c + 1

\* the tab expansion of a text: every byte in its column, spaces elsewhere
TabExpansion(text) ==
    [k \in 1..Column(text, Len(text) + 1) |->
        IF \E i \in 1..Len(text) : text[i] # TAB /\ Column(text, i) + 1 = k
        THEN text[CHOOSE i \in 1..Len(text) : text[i] # TAB /\ Column(text, i) + 1 = k]
        ELSE 32]

(* C13, as stated: for every row rendSize >= size, and rendSize = size if and
   only if the row's text has no tab. *)
C13_RenderedLengthOriginal ==
    \A row \in UnitRowSet :
        /\ Len(row.rendStr) >= Len(row.text)
        /\ (Len(row.rendStr) = Len(row.text)) <=> (TabCount(row.text) = 0)

(* C13, amended: for every row rendSize >= size, rendSize = size when the text
   has no tab, and rendSize = size if and only if every tab of the text falls
   on an output column that is TAB_STOP - 1 modulo TAB_STOP (where it expands
   to one space). *)
C13_RenderedLength ==
    \A row \in UnitRowSet :
        /\ Len(row.rendStr) >= Len(row.text)
        /\ (TabCount(row.text) = 0) => (Len(row.rendStr) = Len(row.text))
        /\ (Len(row.rendStr) = Len(row.text)) <=>
              \A i \in 1..Len(row.text) :
                 row.text[i] = TAB => Column(row.text, i) % TAB_STOP = TAB_STOP - 1

\* C13's case: a row with a tab whose rendering is no longer than its text
C13_Witness ==
    \E row \in UnitRowSet :
        TabCount(row.text) > 0 /\ Len(row.rendStr) = Len(row.text)

(* C14: RenderRow copies every non-tab byte unchanged and replaces every tab by
   k spaces, 1 <= k <= 8, that end on the next multiple of 8; so rendSize <=
   size + 7 * (number of tabs), and "a<TAB>b" renders to 'a', seven spaces,
   'b'. *)
C14_TabsExpandedExactly ==
    \A row \in UnitRowSet :
        LET text == row.text
            rend == row.rendStr
        IN  /\ Len(rend) = Column(text, Len(text) + 1)
            /\ \A i \in 1..Len(text) :
                  LET c == Column(text, i)
                      d == Column(text, i + 1)
                  IN  IF text[i] # TAB
                      THEN d = c + 1 /\ rend[c + 1] = text[i]
                      ELSE /\ 1 <= d - c /\ d - c <= 8
                           /\ d % 8 = 0
                           /\ \A k \in (c + 1)..d : rend[k] = 32
            /\ Len(rend) <= Len(text) + 7 * TabCount(text)
            /\ text = <<97, TAB, 98>> =>
                  rend = <<97, 32, 32, 32, 32, 32, 32, 32, 98>>

\* C14's case: the row "a<TAB>b" has been rendered, to 9 columns
C14_Witness ==
    \E row \in UnitRowSet : row.text = <<97, TAB, 98>> /\ Len(row.rendStr) = 9

(* C15: whenever the editor waits for a key, every row's rendered text is the
   tab expansion of its raw text. *)
C15_RenderedInSync ==
    pc = "loop" =>
        \A i \in 1..Len(attr.tRow) : attr.tRow[i].rendStr = TabExpansion(attr.tRow[i].text)

\* C15's case: a character has been typed into a row that has a tab
C15_Witness ==
    /\ Handled(AllKeys \ CommandKeys)
    /\ last.y < last.rows
    /\ TabCount(attr.tRow[last.y + 1].text) > 0
    /\ Len(attr.tRow[last.y + 1].text) = 3

(* C16: InsertChar(row, x, ch) on a row with text t of length n leaves the text
   t[0..p) ch t[p..n) of length n + 1, where p = x if 0 <= x <= n and p = n
   otherwise, and changes no other row. *)
C16_InsertCharResult ==
    unit.op = "insert" =>
        LET t == unit.prev[unit.r + 1].text
            new == unit.a.tRow[unit.r + 1].text
            n == Len(t)
            p == IF 0 <= unit.x /\ unit.x <= n THEN unit.x ELSE n
        IN  /\ Len(new) = n + 1
            /\ new[p + 1] = unit.ch
            /\ \A k \in 1..p : new[k] = t[k]
            /\ \A k \in (p + 1)..n : new[k + 1] = t[k]
            /\ Len(unit.a.tRow) = Len(unit.prev)
            /\ \A j \in 1..Len(unit.prev) : j # unit.r + 1 => unit.a.tRow[j] = unit.prev[j]

\* C16's case: an insertion at an index out of range, into a non-empty row, beside another row
C16_Witness ==
    /\ unit.op = "insert"
    /\ Len(unit.prev) = 2
    /\ Len(unit.prev[unit.r + 1].text) > 0
    /\ (unit.x < 0 \/ unit.x > Len(unit.prev[unit.r + 1].text))

(* C17, as stated: after every key event other than Ctrl-Q exactly one write
   to the terminal has been made when the next key is awaited, and it carried
   the whole frame. *)
C17_OneWholeWrite ==
    Handled(AllKeys \ {CTRL_KEY(Chq)}) =>
        screen.writes = 1 /\ screen.frame = "whole"

(* C18, as stated: started without a filename, whenever the editor waits for a
   key the terminal shows the banner if and only if the buffer has no rows. *)
C18_BannerIffNoRows ==
    (argv1 = NoArg /\ pc = "loop") => (screen.banner <=> attr.tRowsTot = 0)

(* C19, as stated: the status message is on screen only while its age is under
   5 seconds. *)
C19_MessageOnlyWhileFresh ==
    (pc = "loop" /\ screen.msg) => now - attr.statusMsgTime < StatusMsgLife

(* C20, as stated: after a failed allocation the process has terminated with
   exit code 1. *)
C20_AllocFailureIsFatal ==
    (last.failed = "alloc" \/ screen.frame = "empty") =>
        (pc = "exited" /\ exitCode = {1})

\* the decode table: the bytes after ESC, and the key they stand for
DecodeTable ==
    {<<<<ChLBracket, ChA>>, UP_ARROW>>, <<<<ChLBracket, ChB>>, DOWN_ARROW>>,
     <<<<ChLBracket, ChC>>, RIGHT_ARROW>>, <<<<ChLBracket, ChD>>, LEFT_ARROW>>,
     <<<<ChLBracket, ChF>>, END_KEY>>, <<<<ChLBracket, ChH>>, HOME_KEY>>,
     <<<<ChLBracket, 49, ChTilde>>, HOME_KEY>>, <<<<ChLBracket, 55, ChTilde>>, HOME_KEY>>,
     <<<<ChLBracket, 52, ChTilde>>, END_KEY>>, <<<<ChLBracket, 56, ChTilde>>, END_KEY>>,
     <<<<ChLBracket, 51, ChTilde>>, DEL_KEY>>, <<<<ChLBracket, 53, ChTilde>>, PAGE_UP>>,
     <<<<ChLBracket, 54, ChTilde>>, PAGE_DOWN>>,
     <<<<ChO, ChF>>, END_KEY>>, <<<<ChO, ChH>>, HOME_KEY>>}

(* C21: ReadKeypress returns the mapped key for every entry of the decode
   table, the bare escape key for ESC [ 9 ~ and for a lone ESC, and every first
   byte other than ESC as itself (as the char it is: a byte from 128 on comes
   back as the negative char value that stands for it). *)
C21_DecodeTable ==
    (pc = "start" /\ last.seq # <<>>) =>
        /\ \A e \in DecodeTable : last.seq = <<ESC>> \o e[1] => last.key = e[2]
        /\ last.seq = <<ESC, ChLBracket, Ch9, ChTilde>> => last.key = ESC
        /\ last.seq = <<ESC>> => last.key = ESC
        /\ last.seq[1] # ESC =>
              /\ last.key % 256 = last.seq[1]
              /\ last.seq[1] < 128 => last.key = last.seq[1]

\* C21's case: ESC [ 8 ~, an alternate sequence of the End key, has been decoded
C21_Witness ==
    pc = "start" /\ last.seq = <<ESC, ChLBracket, 56, ChTilde>> /\ last.key = END_KEY

\* a step in which the key event Ctrl-Q is handled
QuitEvent == pc = "loop" /\ last'.seq # <<>> /\ last'.key = CTRL_KEY(Chq)

(* C22, as stated: a Ctrl-Q key event ends the loop with no frame written and
   the buffer and the files untouched, and the process exits with code 0; no
   other step ends with exit code 0; after the exit nothing happens. *)
C22_QuitExitsZeroOriginal ==
    [][/\ QuitEvent =>
            /\ pc' = "exited" /\ exitCode' = {0}
            /\ screen' = [screen EXCEPT !.writes = 0]
            /\ last'.tRow = attr.tRow
            /\ fs' = fs
       /\ exitCode' = {0} => QuitEvent
       /\ pc \in {"exited", "killed"} => UNCHANGED vars]_vars

(* C22, amended: a Ctrl-Q key event ends the loop with no frame written and the
   buffer and the files untouched, and the process exits with code 0, or, when
   the terminal mode cannot be restored, with code 1 after the error handler
   has cleared the screen; no other step ends with exit code 0; after the exit
   nothing happens. *)
C22_QuitExitsZero ==
    [][/\ QuitEvent =>
            /\ pc' = "exited"
            /\ \/ exitCode' = {0} /\ term' = "original" /\ screen' = [screen EXCEPT !.writes = 0]
               \/ exitCode' = {1} /\ term' = "raw" /\ screen' = BlankScreen(2)
            /\ last'.tRow = attr.tRow
            /\ fs' = fs
       /\ exitCode' = {0} => QuitEvent
       /\ pc \in {"exited", "killed"} => UNCHANGED vars]_vars

\* C22's case: Ctrl-Q has ended the editor with rows in its buffer and a frame on screen
C22_Witness ==
    /\ pc = "exited" /\ exitCode = {0}
    /\ last.key = CTRL_KEY(Chq)
    /\ last.tRow # <<>>
    /\ screen.frame = "whole"

(* C23, as stated: in the runs of SpecNav, Right pressed on an existing row at
   absolute column c < rendered length moves to column c + 1 of the same row;
   pressed at c = rendered length on a row that is not the last, it moves to
   the next row with cursorX = 0 and colOffset = 0. *)
C23_RightMovesOneColumn ==
    (Handled({RIGHT_ARROW}) /\ last.y < last.rows) =>
        LET len == Len(attr.tRow[last.y + 1].rendStr)
        IN  /\ last.x < len =>
                  /\ attr.rowOffset + attr.cursorY = last.y
                  /\ attr.colOffset + attr.cursorX = last.x + 1
            /\ (last.x = len /\ last.y < last.rows - 1) =>
                  /\ attr.rowOffset + attr.cursorY = last.y + 1
                  /\ attr.cursorX = 0
                  /\ attr.colOffset = 0

(* C24: Left pressed at absolute column 0 of absolute row r > 0 moves the
   cursor to the end of row r - 1 (absolute column = its rendered length, with
   cursorX <= numCols - 1); pressed at absolute column c > 0 it moves to column
   c - 1 of the same row. *)
C24_LeftMovesOneColumn ==
    Handled({LEFT_ARROW}) =>
        /\ (last.x = 0 /\ last.y > 0) =>
              /\ attr.rowOffset + attr.cursorY = last.y - 1
              /\ attr.colOffset + attr.cursorX = RenderedLenUnderCursor
              /\ attr.cursorX <= attr.numCols - 1
        /\ last.x > 0 =>
              /\ attr.rowOffset + attr.cursorY = last.y
              /\ attr.colOffset + attr.cursorX = last.x - 1

(* C25: the key events Up, Down, Left, Right, PageUp, PageDown, Home, End,
   Escape, Ctrl-L, Enter, Backspace, Delete and Ctrl-H leave the row store as
   it was: the same number of rows, each with the same raw and rendered text. *)
C25_NavigationKeepsRows ==
    [][(/\ pc = "loop"
        /\ last'.seq # <<>>
        /\ last'.key \in {UP_ARROW, DOWN_ARROW, LEFT_ARROW, RIGHT_ARROW, PAGE_UP,
                          PAGE_DOWN, HOME_KEY, END_KEY, ESC, CTRL_KEY(Chl), CR,
                          BACKSPACE, DEL_KEY, CTRL_KEY(Chh)}) =>
            /\ last'.tRow = attr.tRow
            /\ pc' = "loop" => (attr'.tRow = attr.tRow /\ attr'.tRowsTot = attr.tRowsTot)]_vars

\* C25's case: Enter, Backspace or Delete has been pressed after a character was typed
C25_Witness ==
    /\ Handled({CR, BACKSPACE, DEL_KEY})
    /\ typed > 0
    /\ attr.tRowsTot > 0

(* C26, as stated: Left pressed at the very first position of the buffer
   (cursorY = 0, rowOffset = 0, cursorX = 0, colOffset = 0) changes neither
   the cursor position nor the scroll offsets. *)
C26_LeftAtOriginIsNoOp ==
    (Handled({LEFT_ARROW}) /\ last.x = 0 /\ last.y = 0) =>
        /\ attr.cursorX = 0 /\ attr.cursorY = 0
        /\ attr.rowOffset = 0 /\ attr.colOffset = 0

(* C27, as stated: after any sequence of key events the cursor is on an
   existing row or on the line just past the last row:
   rowOffset + cursorY <= tRowsTot. *)
C27_CursorNotPastLastLine ==
    pc = "loop" => attr.rowOffset + attr.cursorY <= attr.tRowsTot

(* C28, as stated: when End is pressed with no buffer row under the cursor, no
   row is read (so the process does not die of the read) and cursorX is left
   within [0, numCols). *)
C28_EndReadsNoMissingRow ==
    (last.seq # <<>> /\ last.key = END_KEY /\ last.y >= last.rows) =>
        /\ pc # "killed"
        /\ pc = "loop" => (0 <= attr.cursorX /\ attr.cursorX < attr.numCols)

\* a step in which a typed character is handled
InsertEvent == pc = "loop" /\ typed' = typed + 1

(* C29, as stated: an insertion addresses the row at index r = rowOffset +
   cursorY with r <= tRowsTot; when it goes through, one empty row has been
   appended first if r = tRowsTot, row r has one character more and every
   other row is as it was. *)
C29_InsertAddressesCursorRow ==
    [][InsertEvent =>
          LET r == attr.rowOffset + attr.cursorY
              n == attr.tRowsTot
              old == IF r < n THEN attr.tRow[r + 1].text ELSE <<>>
              new == last'.tRow
          IN  /\ r <= n
              /\ (pc' = "loop" /\ r <= n) =>
                    /\ Len(new) = IF r = n THEN n + 1 ELSE n
                    /\ Len(new[r + 1].text) = Len(old) + 1
                    /\ \A j \in 1..n : j # r + 1 => new[j] = attr.tRow[j]]_vars

(* C30, as stated: when the editor was started without a filename argument, a
   Ctrl-S key event creates, truncates or writes no file. *)
C30_UnnamedSaveWritesNothing ==
    [][(/\ argv1 = NoArg
        /\ pc = "loop"
        /\ last'.seq # <<>>
        /\ last'.key = CTRL_KEY(Chs)) => fs' = fs]_vars

\* isprint in the C locale
Printable(b) == 32 <= b /\ b <= 126

(* C31, as stated: a key event for a single byte that is neither printable nor
   bound to a command leaves the row store unchanged. *)
C31_OnlyPrintableInserted ==
    [][(/\ pc = "loop"
        /\ typed' = typed + 1
        /\ Len(last'.seq) = 1
        /\ ~Printable(last'.seq[1])
        /\ last'.key \notin CommandKeys) => last'.tRow = attr.tRow]_vars

=============================================================================
